---- MODULE Spec2Model ----
(***************************************************************************)
(* namaco: the preprocessors (tests/preprocess.py) and the training driver *)
(* (namaco/trainer.py).                                                    *)
(*                                                                         *)
(* A Python str is the sequence of its characters; a character is a TLA+   *)
(* string naming one code point (Ord gives the code point): "FW1" is the   *)
(* full-width digit one, "HIRA" a hiragana and "KATA" a katakana letter.   *)
(* A dict is a function from keys to values, len(dict) the cardinality of  *)
(* its domain.                                                             *)
(***************************************************************************)
EXTENDS Naturals, Sequences, FiniteSets, TLC

VARIABLES
  lowercase,   \* StaticPreprocessor._lowercase
  num_norm,    \* StaticPreprocessor._num_norm
  word_dic,    \* StaticPreprocessor.word_dic
  char_dic,    \* StaticPreprocessor.char_dic
  pos_dic,     \* StaticPreprocessor.pos_dic
  label_dic,   \* StaticPreprocessor.label_dic
  nfits,       \* number of calls of fit so far
  X,           \* the documents of the most recent fit / transform call
  y,           \* the label sequences of that call (Some(..) or None)
  ret,         \* what the most recent call returned or raised
  word,        \* get_bies: the argument
  bies,        \* get_bies: the result
  cfg,         \* Trainer: the constructor's and train's arguments
  pc,          \* Trainer.train: the statement to run next
  trace,       \* Trainer.train: the collaborator calls made so far
  loc,         \* Trainer.train: its local variables
  files        \* the files written by model.save

pvars == <<lowercase, num_norm, word_dic, char_dic, pos_dic, label_dic, nfits, X, y, ret>>
bvars == <<word, bies>>
tvars == <<cfg, pc, trace, loc, files>>
vars == <<pvars, bvars, tvars>>

----------------------------------------------------------------------------
(* Bounds                                                                   *)

MaxFits == 2
MaxWordLen == 4
MaxDocsTrain == 2
MaxBatchSize == 2
MaxVocabTag == 2

----------------------------------------------------------------------------
(* Strings and characters                                                   *)

PAD == <<"<", "P", "A", "D", ">">>
UNK == <<"<", "U", "N", "K", ">">>

None == [some |-> FALSE, v |-> <<>>]
Some(v) == [some |-> TRUE, v |-> v]

Ord ==
  [c \in {" ", "0", "1", "B", "a", "b", "FW1", "HIRA", "KATA"} |->
     CASE c = " " -> 32
       [] c = "0" -> 48
       [] c = "1" -> 49
       [] c = "B" -> 66
       [] c = "a" -> 97
       [] c = "b" -> 98
       [] c = "FW1" -> 65297
       [] c = "HIRA" -> 12354
       [] c = "KATA" -> 12450]

isspace(ch) == ch = " "
isdigit(ch) == ch \in {"0", "1", "FW1"}
islower(ch) == ch \in {"a", "b"}
isupper(ch) == ch = "B"

\* str.lower() on one character
lower_ch(ch) == IF ch = "B" THEN "b" ELSE ch

lower(text) == [i \in DOMAIN text |-> lower_ch(text[i])]

normalize_number(text) ==
  [i \in DOMAIN text |-> IF text[i] \in {"0", "1", "FW1"} THEN "0" ELSE text[i]]

is_hiragana(ch) == 12352 <= Ord[ch] /\ Ord[ch] <= 12447

is_katakana(ch) == 12448 <= Ord[ch] /\ Ord[ch] <= 12543

get_character_type(ch) ==
  IF isspace(ch) THEN 1
  ELSE IF isdigit(ch) THEN 2
  ELSE IF islower(ch) THEN 3
  ELSE IF isupper(ch) THEN 4
  ELSE IF is_hiragana(ch) THEN 5
  ELSE IF is_katakana(ch) THEN 6
  ELSE 7

RECURSIVE Flatten(_)
\* ''.join(doc) and itertools.chain(*lists)
Flatten(ss) == IF ss = <<>> THEN <<>> ELSE Head(ss) \o Flatten(Tail(ss))

RECURSIVE rstrip(_)
rstrip(text) ==
  IF text # <<>> /\ isspace(text[Len(text)])
  THEN rstrip(SubSeq(text, 1, Len(text) - 1))
  ELSE text

\* The analyzer behind tokenize (MeCab, external): it segments the text into
\* maximal runs of one character class, drops the whitespace between them and
\* tags every surface by the class of its characters.
RunLen(s) ==
  CHOOSE k \in 1..Len(s) :
    /\ \A i \in 1..k : get_character_type(s[i]) = get_character_type(s[1])
    /\ k = Len(s) \/ get_character_type(s[k + 1]) # get_character_type(s[1])

RECURSIVE Chunks(_)
Chunks(s) ==
  IF s = <<>> THEN <<>>
  ELSE <<SubSeq(s, 1, RunLen(s))>> \o Chunks(SubSeq(s, RunLen(s) + 1, Len(s)))

Feature(surface) ==
  CASE get_character_type(surface[1]) = 2 -> <<"N", "-", "D">>
    [] get_character_type(surface[1]) = 3 -> <<"N">>
    [] get_character_type(surface[1]) = 4 -> <<"N", "-", "P">>
    [] OTHER -> <<"S">>

IsSurface(chunk) == ~isspace(chunk[1])

\* tokenize(text) = (words, poses)
tokenize(text) ==
  LET surfaces == SelectSeq(Chunks(rstrip(text)), IsSurface)
  IN  [words |-> surfaces, poses |-> [i \in DOMAIN surfaces |-> Feature(surfaces[i])]]

\* the text fit and transform tokenize for one document
Normalized(doc) ==
  LET text == Flatten(doc)
      t1 == IF lowercase THEN lower(text) ELSE text
  IN  IF num_norm THEN normalize_number(t1) ELSE t1

----------------------------------------------------------------------------
(* StaticPreprocessor                                                       *)

bies_dic == [B |-> 1, I |-> 2, E |-> 3, S |-> 4]

Size(dic) == Cardinality(DOMAIN dic)

\* dic[k] = v
Store(dic, k, v) == [x \in DOMAIN dic \cup {k} |-> IF x = k THEN v ELSE dic[x]]

\* dic.get(k, default)
Get(dic, k, default) == IF k \in DOMAIN dic THEN dic[k] ELSE default

RECURSIVE FitChars_LastId(_, _)
\* FitChars with len(char_dic) - 1 as the new ID
FitChars_LastId(cd, w) ==
  IF w = <<>> THEN cd
  ELSE FitChars_LastId(IF <<Head(w)>> \in DOMAIN cd THEN cd
                       ELSE Store(cd, <<Head(w)>>, Size(cd) - 1),
                       Tail(w))

RECURSIVE FitChars(_, _)
\* for c in w: if c in char_dic: continue; char_dic[c] = len(char_dic)
FitChars(cd, w) ==
  IF w = <<>> THEN cd
  ELSE FitChars(IF <<Head(w)>> \in DOMAIN cd THEN cd
                ELSE Store(cd, <<Head(w)>>, Size(cd)),
                Tail(w))

RECURSIVE FitWords(_, _)
\* for w in words: ...   over d = [word |-> word_dic, char |-> char_dic]
FitWords(d, words) ==
  IF words = <<>> THEN d
  ELSE LET w == Head(words)
       IN  FitWords(IF w \in DOMAIN d.word THEN d
                    ELSE [word |-> Store(d.word, w, Size(d.word)),
                          char |-> FitChars(d.char, w)],
                    Tail(words))

RECURSIVE FitPoses(_, _)
\* for pos in poses: ...
FitPoses(pd, poses) ==
  IF poses = <<>> THEN pd
  ELSE FitPoses(IF Head(poses) \in DOMAIN pd THEN pd
                ELSE Store(pd, Head(poses), Size(pd)),
                Tail(poses))

RECURSIVE FitDocs(_, _)
\* for doc in X: ...   over d = [word, char, pos]
FitDocs(d, docs) ==
  IF docs = <<>> THEN d
  ELSE LET tk == tokenize(Normalized(Head(docs)))
           wc == FitWords([word |-> d.word, char |-> d.char], tk.words)
       IN  FitDocs([word |-> wc.word, char |-> wc.char, pos |-> FitPoses(d.pos, tk.poses)],
                   Tail(docs))

RECURSIVE FitLabels(_, _)
\* for t in <iteration order of the set>: label_dic[t] = len(label_dic)
FitLabels(ld, order) ==
  IF order = <<>> THEN ld
  ELSE FitLabels(Store(ld, Head(order), Size(ld)), Tail(order))

Range(s) == {s[i] : i \in DOMAIN s}

\* the orders in which iterating over a set can yield its elements
Orders(S) == {o \in [1..Cardinality(S) -> S] : Range(o) = S}


Rep(v, n) == [i \in 1..n |-> v]

\* _get_char_ids with the ID of '<PAD>' for a character that is not in char_dic
_get_char_ids_Pad(w) == [i \in DOMAIN w |-> Get(char_dic, <<w[i]>>, char_dic[PAD])]

_get_char_ids(w) == [i \in DOMAIN w |-> Get(char_dic, <<w[i]>>, char_dic[UNK])]

\* get_char_types with one type for the word instead of one per character
get_char_types_PerWord(w) == <<get_character_type(w[1])>>

get_char_types(w) == [i \in DOMAIN w |-> get_character_type(w[i])]

\* get_bies without the case of the one-character word
get_bies_NoSingle(w) ==
  LET res == [q \in 1..Len(w) |-> bies_dic.I]
      res1 == [q \in 1..Len(w) |-> IF q = 1 THEN bies_dic.B ELSE res[q]]
  IN  [q \in 1..Len(w) |-> IF q = Len(w) THEN bies_dic.E ELSE res1[q]]

\* res = [I] * len(word); res[0] = B; res[-1] = E
get_bies(w) ==
  IF Len(w) = 1 THEN <<bies_dic.S>>
  ELSE LET res == [q \in 1..Len(w) |-> bies_dic.I]
           res1 == [q \in 1..Len(w) |-> IF q = 1 THEN bies_dic.B ELSE res[q]]
       IN  [q \in 1..Len(w) |-> IF q = Len(w) THEN bies_dic.E ELSE res1[q]]

\* the five per-character arrays transform builds for one document
DocFeatures(doc) ==
  LET tk == tokenize(Normalized(doc))
      words == tk.words
      poses == tk.poses
  IN  [word_ids |-> Flatten([i \in DOMAIN words |->
                       Rep(Get(word_dic, words[i], word_dic[UNK]), Len(words[i]))]),
       char_ids |-> Flatten([i \in DOMAIN words |-> _get_char_ids(words[i])]),
       bies_ids |-> Flatten([i \in DOMAIN words |-> get_bies(words[i])]),
       pos_ids |-> Flatten([i \in DOMAIN words |->
                       Rep(Get(pos_dic, poses[i], pos_dic[UNK]), Len(words[i]))]),
       char_types |-> Flatten([i \in DOMAIN words |-> get_char_types(words[i])])]

\* the three assert statements of transform, for one document
AssertsHold(f) ==
  /\ Len(f.char_ids) = Len(f.word_ids)
  /\ Len(f.bies_ids) = Len(f.word_ids)
  /\ Len(f.pos_ids) = Len(f.word_ids)

RECURSIVE DocsFeatures(_)
\* for doc in X: ...   the arrays of every document, in order
DocsFeatures(docs) ==
  IF docs = <<>> THEN <<>>
  ELSE <<DocFeatures(Head(docs))>> \o DocsFeatures(Tail(docs))

Raised(call, error) == [op |-> call, status |-> error, x |-> <<>>, yv |-> None, dec |-> <<>>]

\* transform after its loop over the documents: the asserts, the labels, the return
transform_rest(fs, labels) ==
  IF \E i \in DOMAIN fs : ~AssertsHold(fs[i])
  THEN Raised("transform", "AssertionError")
  ELSE IF labels.some /\ \E i \in DOMAIN labels.v : \E j \in DOMAIN labels.v[i] :
                            labels.v[i][j] \notin DOMAIN label_dic
  THEN Raised("transform", "KeyError")
  ELSE [op |-> "transform", status |-> "ok",
        x |-> <<[i \in DOMAIN fs |-> fs[i].word_ids],
                [i \in DOMAIN fs |-> fs[i].char_ids],
                [i \in DOMAIN fs |-> fs[i].bies_ids],
                [i \in DOMAIN fs |-> fs[i].pos_ids],
                [i \in DOMAIN fs |-> fs[i].char_types]>>,
        yv |-> IF labels.some
               THEN Some([i \in DOMAIN labels.v |->
                            [j \in DOMAIN labels.v[i] |-> label_dic[labels.v[i][j]]]])
               ELSE None,
        dec |-> <<>>]

\* what transform(docs, labels) returns or raises
transform(docs, labels) == transform_rest(DocsFeatures(docs), labels)

\* the dicts {i: k for k, i in dic.items()} can be: one key per ID
Id2Maps(dic) ==
  LET ids == {dic[k] : k \in DOMAIN dic}
  IN  {f \in [ids -> DOMAIN dic] : \A i \in ids : dic[f[i]] = i}

\* the dict {i: c for c, i in char_dic.items()}; char_dic never holds an ID twice
id2char == [i \in {char_dic[k] : k \in DOMAIN char_dic} |->
              CHOOSE k \in DOMAIN char_dic : char_dic[k] = i]

Decode(id2, rows) == [i \in DOMAIN rows |-> [j \in DOMAIN rows[i] |-> id2[rows[i][j]]]]

----------------------------------------------------------------------------
(* DynamicPreprocessor                                                      *)

RECURSIVE MaxOf(_)
MaxOf(S) ==
  IF S = {} THEN 0
  ELSE LET m == CHOOSE m \in S : TRUE
           r == MaxOf(S \ {m})
       IN  IF m > r THEN m ELSE r

\* pad_sequences with keras' default padding='pre': the zeros come first
pad_sequences_Pre(rows) ==
  LET maxlen == MaxOf({Len(rows[i]) : i \in DOMAIN rows})
  IN  [i \in DOMAIN rows |-> Rep(0, maxlen - Len(rows[i])) \o rows[i]]

\* pad_sequences with maxlen = the length of the first row: longer rows are cut
pad_sequences_First(rows) ==
  LET maxlen == Len(rows[1])
  IN  [i \in DOMAIN rows |->
         IF Len(rows[i]) >= maxlen THEN SubSeq(rows[i], 1, maxlen)
         ELSE rows[i] \o Rep(0, maxlen - Len(rows[i]))]

\* keras pad_sequences(rows, padding='post'): every row, then zeros up to the longest
pad_sequences(rows) ==
  LET maxlen == MaxOf({Len(rows[i]) : i \in DOMAIN rows})
  IN  [i \in DOMAIN rows |-> rows[i] \o Rep(0, maxlen - Len(rows[i]))]

\* keras to_categorical(row, n): one one-hot vector of width n per entry
to_categorical(row, n) ==
  [j \in DOMAIN row |-> [c \in 1..n |-> IF c = row[j] + 1 THEN 1 ELSE 0]]

\* what DynamicPreprocessor(n_labels).transform(feats, labels) returns or raises
dyn_transform(n_labels, feats, labels) ==
  IF feats[1] = <<>>
  THEN Raised("dyn_transform", "ValueError")
  ELSE IF labels.some /\ labels.v = <<>>
  THEN Raised("dyn_transform", "ValueError")
  ELSE IF labels.some /\ \E i \in DOMAIN labels.v : \E j \in DOMAIN labels.v[i] :
                            labels.v[i][j] >= n_labels
  THEN Raised("dyn_transform", "IndexError")
  ELSE [op |-> "dyn_transform", status |-> "ok",
        x |-> [k \in 1..5 |-> pad_sequences(feats[k])],
        yv |-> IF labels.some
               THEN Some(LET padded == pad_sequences(labels.v)
                         IN  [i \in DOMAIN padded |-> to_categorical(padded[i], n_labels)])
               ELSE None,
        dec |-> <<>>]


----------------------------------------------------------------------------
(* The documents and label sequences the calls are made with                *)

dAB == << <<"a", "B">> >>
dA1 == << <<"a", " ">>, <<"1">> >>
dAB1 == << <<"a", "B", "1">> >>
dA == << <<"a">> >>
d11 == << <<"1", "FW1", " ">> >>
dKana == << <<"HIRA", "KATA">>, <<"b">> >>
dEmpty == << >>

Batches ==
  { <<dAB, dEmpty>>, <<dA1, dA, dAB1>>, <<dKana, d11>> }

O == <<"O">>
PER == <<"P", "E", "R">>

LabelBatches ==
  { None,
    Some(<< <<O, O>> >>),
    Some(<< <<PER, O>>, <<O>>, <<O, PER, O>> >>) }

----------------------------------------------------------------------------
(* StaticPreprocessor and DynamicPreprocessor: the calls                    *)

NoCall == [op |-> "none", status |-> "ok", x |-> <<>>, yv |-> None, dec |-> <<>>]

\* StaticPreprocessor.__init__
InitPre ==
  /\ lowercase \in BOOLEAN
  /\ num_norm \in BOOLEAN
  /\ word_dic = (PAD :> 0) @@ (UNK :> 1)
  /\ char_dic = (PAD :> 0) @@ (UNK :> 1)
  /\ pos_dic = (PAD :> 0) @@ (UNK :> 1)
  /\ label_dic = (PAD :> 0)
  /\ nfits = 0
  /\ X = <<>>
  /\ y = None
  /\ ret = NoCall

\* StaticPreprocessor.fit(Xin, yin)
Fit ==
  /\ nfits < MaxFits
  /\ \E Xin \in Batches, yin \in LabelBatches :
       LET d == FitDocs([word |-> word_dic, char |-> char_dic, pos |-> pos_dic], Xin)
       IN  /\ word_dic' = d.word
           /\ char_dic' = d.char
           /\ pos_dic' = d.pos
           /\ X' = Xin
           /\ y' = yin
           /\ IF yin.some
              THEN \E order \in Orders(Range(Flatten(yin.v))) :
                     /\ label_dic' = FitLabels(label_dic, order)
                     /\ ret' = [NoCall EXCEPT !.op = "fit"]
              ELSE /\ label_dic' = label_dic
                   /\ ret' = [NoCall EXCEPT !.op = "fit", !.status = "TypeError"]
  /\ nfits' = nfits + 1
  /\ UNCHANGED <<lowercase, num_norm, bvars, tvars>>

\* StaticPreprocessor.transform(Xin, yin)
Transform ==
  /\ \E Xin \in Batches, yin \in LabelBatches :
       /\ X' = Xin
       /\ y' = yin
       /\ ret' = transform(Xin, yin)
  /\ UNCHANGED <<lowercase, num_norm, word_dic, char_dic, pos_dic, label_dic, nfits, bvars, tvars>>

\* StaticPreprocessor.inverse_transform(X=the char IDs transform returned), or
\* inverse_transform(docs=the label IDs transform returned)
InverseTransform ==
  /\ ret.op = "transform"
  /\ ret.status = "ok"
  /\ \/ ret' = [NoCall EXCEPT !.op = "inverse_transform_X", !.dec = Decode(id2char, ret.x[2])]
     \/ /\ ret.yv.some
        /\ \E id2label \in Id2Maps(label_dic) :
             ret' = [NoCall EXCEPT !.op = "inverse_transform_docs",
                                   !.dec = Decode(id2label, ret.yv.v)]
  /\ UNCHANGED <<lowercase, num_norm, word_dic, char_dic, pos_dic, label_dic, nfits, X, y,
                 bvars, tvars>>

\* DynamicPreprocessor(n_labels=len(label_dic)).transform(what transform returned):
\* the one-hot width is the size of the label dictionary at the time of the call
DynTransform ==
  /\ ret.op = "transform"
  /\ ret.status = "ok"
  /\ ret' = dyn_transform(Size(label_dic), ret.x, ret.yv)
  /\ UNCHANGED <<lowercase, num_norm, word_dic, char_dic, pos_dic, label_dic, nfits, X, y,
                 bvars, tvars>>

----------------------------------------------------------------------------
(* get_bies on its own                                                      *)

WordChars == {"a", "0", "KATA"}

Words == UNION {[1..n -> WordChars] : n \in 0..MaxWordLen}

NoBies == [status |-> "none", v |-> <<>>]

InitBies ==
  /\ word \in Words
  /\ bies = NoBies

\* StaticPreprocessor.get_bies(word)
GetBies ==
  /\ bies = NoBies
  /\ bies' = IF Len(word) = 0 THEN [status |-> "IndexError", v |-> <<>>]
             ELSE [status |-> "ok", v |-> get_bies(word)]
  /\ UNCHANGED <<word, pvars, tvars>>


----------------------------------------------------------------------------
(* Trainer.train                                                            *)

\* batch_iter's step count: ceil(len(data) / batch_size)
BatchSteps(n, batch_size) == (n + batch_size - 1) \div batch_size

\* os.path.join(path, name)
join(path, name) ==
  IF path = <<>> THEN name
  ELSE IF path[Len(path)] = "/" THEN path \o name
  ELSE path \o <<"/">> \o name

NoModel == [built |-> FALSE, n_labels |-> 0, compiled |-> FALSE, fitted |-> FALSE]

NoCallbacks == [made |-> FALSE, tensorboard |-> FALSE, eary_stopping |-> FALSE, valid_steps |-> 0]

NoLocals == [train_steps |-> 0, valid_steps |-> 0, model |-> NoModel, callbacks |-> NoCallbacks]

\* Trainer(..) and the arguments of train: the preprocessor is None (the default),
\* a StaticPreprocessor (it has no vocab_tag) or an object with a vocab_tag of n_tags entries
Configs ==
  [n_train : 0..MaxDocsTrain,
   n_valid : 0..MaxDocsTrain,
   batch_size : 1..MaxBatchSize,
   preprocessor : {"None", "StaticPreprocessor"},
   n_tags : {0},
   tensorboard : BOOLEAN,
   early_stopping : BOOLEAN,
   save_path : {<<>>, <<"o", "u", "t">>, <<"o", "u", "t", "/">>}]
  \cup
  [n_train : 0..MaxDocsTrain,
   n_valid : 0..MaxDocsTrain,
   batch_size : 1..MaxBatchSize,
   preprocessor : {"WithVocabTag"},
   n_tags : 1..MaxVocabTag,
   tensorboard : BOOLEAN,
   early_stopping : BOOLEAN,
   save_path : {<<>>, <<"o", "u", "t">>, <<"o", "u", "t", "/">>}]

IdleTrain ==
  /\ cfg = [n_train |-> 0, n_valid |-> 0, batch_size |-> 1, preprocessor |-> "None",
            n_tags |-> 0, tensorboard |-> TRUE, early_stopping |-> FALSE, save_path |-> <<>>]
  /\ pc = "idle"
  /\ trace = <<>>
  /\ loc = NoLocals
  /\ files = {}

\* train is called
InitTrain ==
  /\ cfg \in Configs
  /\ pc = "train_batches"
  /\ trace = <<>>
  /\ loc = NoLocals
  /\ files = {}

\* a collaborator raised: the exception leaves train
Raise(call) ==
  /\ trace' = Append(trace, call)
  /\ pc' = "raised"
  /\ UNCHANGED <<cfg, loc, files, pvars, bvars>>

\* train_steps, train_batches = batch_iter(x_train, y_train, ...)
TrainBatches ==
  /\ pc = "train_batches"
  /\ \/ /\ trace' = Append(trace, "batch_iter_train")
        /\ loc' = [loc EXCEPT !.train_steps = BatchSteps(cfg.n_train, cfg.batch_size)]
        /\ pc' = "valid_batches"
        /\ UNCHANGED <<cfg, files, pvars, bvars>>
     \/ Raise("batch_iter_train")

\* valid_steps, valid_batches = batch_iter(x_valid, y_valid, ...)
ValidBatches ==
  /\ pc = "valid_batches"
  /\ \/ /\ trace' = Append(trace, "batch_iter_valid")
        /\ loc' = [loc EXCEPT !.valid_steps = BatchSteps(cfg.n_valid, cfg.batch_size)]
        /\ pc' = "build"
        /\ UNCHANGED <<cfg, files, pvars, bvars>>
     \/ Raise("batch_iter_valid")

\* model = CharacterNER(self.model_config, len(self.preprocessor.vocab_tag))
BuildModel ==
  /\ pc = "build"
  /\ \/ /\ cfg.preprocessor # "WithVocabTag"
        /\ pc' = "raised"
        /\ UNCHANGED <<cfg, trace, loc, files, pvars, bvars>>
     \/ /\ cfg.preprocessor = "WithVocabTag"
        /\ trace' = Append(trace, "CharacterNER")
        /\ loc' = [loc EXCEPT !.model = [NoModel EXCEPT !.built = TRUE, !.n_labels = cfg.n_tags]]
        /\ pc' = "compile"
        /\ UNCHANGED <<cfg, files, pvars, bvars>>
     \/ /\ cfg.preprocessor = "WithVocabTag"
        /\ Raise("CharacterNER")

\* model.compile(loss=model.crf.loss, optimizer=Adam(..))
Compile ==
  /\ pc = "compile"
  /\ \/ /\ trace' = Append(trace, "compile")
        /\ loc' = [loc EXCEPT !.model.compiled = TRUE]
        /\ pc' = "callbacks"
        /\ UNCHANGED <<cfg, files, pvars, bvars>>
     \/ Raise("compile")

\* callbacks = get_callbacks(log_dir=.., tensorboard=.., eary_stopping=.., valid=..)
GetCallbacks ==
  /\ pc = "callbacks"
  /\ \/ /\ trace' = Append(trace, "get_callbacks")
        /\ loc' = [loc EXCEPT !.callbacks = [made |-> TRUE,
                                              tensorboard |-> cfg.tensorboard,
                                              eary_stopping |-> cfg.early_stopping,
                                              valid_steps |-> loc.valid_steps]]
        /\ pc' = "fit"
        /\ UNCHANGED <<cfg, files, pvars, bvars>>
     \/ Raise("get_callbacks")

\* fit_generator with its exception swallowed: train goes on to save
FitGenerator_Swallow ==
  /\ pc = "fit"
  /\ \/ /\ trace' = Append(trace, "fit_generator")
        /\ loc' = [loc EXCEPT !.model.fitted = TRUE]
        /\ pc' = "save"
        /\ UNCHANGED <<cfg, files, pvars, bvars>>
     \/ /\ trace' = Append(trace, "fit_generator")
        /\ pc' = "save"
        /\ UNCHANGED <<cfg, loc, files, pvars, bvars>>

\* model.fit_generator(generator=train_batches, steps_per_epoch=train_steps, ..)
FitGenerator ==
  /\ pc = "fit"
  /\ \/ /\ trace' = Append(trace, "fit_generator")
        /\ loc' = [loc EXCEPT !.model.fitted = TRUE]
        /\ pc' = "save"
        /\ UNCHANGED <<cfg, files, pvars, bvars>>
     \/ Raise("fit_generator")

\* model.save(os.path.join(self.save_path, 'model.h5'))
Save ==
  /\ pc = "save"
  /\ \/ /\ trace' = Append(trace, "save")
        /\ files' = files \cup {join(cfg.save_path, <<"model.h5">>)}
        /\ pc' = "returned"
        /\ UNCHANGED <<cfg, loc, pvars, bvars>>
     \/ Raise("save")

----------------------------------------------------------------------------
(* Specifications                                                           *)

IdlePre == InitPre /\ lowercase /\ num_norm

IdleBies == word = <<>> /\ bies = NoBies

\* the preprocessors
Init == InitPre /\ IdleBies /\ IdleTrain

Next == Fit \/ Transform \/ InverseTransform \/ DynTransform

Spec == Init /\ [][Next]_vars

\* get_bies
InitB == IdlePre /\ InitBies /\ IdleTrain

NextB == GetBies

SpecBies == InitB /\ [][NextB]_vars

\* the training driver
InitT == IdlePre /\ IdleBies /\ InitTrain

NextT ==
  TrainBatches \/ ValidBatches \/ BuildModel \/ Compile \/ GetCallbacks \/ FitGenerator \/ Save

SpecTrain == InitT /\ [][NextT]_vars


----------------------------------------------------------------------------
(* Properties                                                               *)

AllWords(docs) == Flatten([i \in DOMAIN docs |-> tokenize(Normalized(docs[i])).words])

AllPoses(docs) == Flatten([i \in DOMAIN docs |-> tokenize(Normalized(docs[i])).poses])

\* the characters of the tokenized text of one document, each as a string
DocChars(doc) ==
  LET cs == Flatten(tokenize(Normalized(doc)).words)
  IN  [p \in DOMAIN cs |-> <<cs[p]>>]

\* the index of the word a character position lies in
WordAt(words, p) ==
  CHOOSE j \in DOMAIN words :
    /\ Len(Flatten(SubSeq(words, 1, j - 1))) < p
    /\ p <= Len(Flatten(SubSeq(words, 1, j)))

RECURSIVE FirstOccurrences(_)
\* the distinct elements of a sequence, in the order of their first occurrence
FirstOccurrences(seq) ==
  IF seq = <<>> THEN <<>>
  ELSE LET r == FirstOccurrences(SubSeq(seq, 1, Len(seq) - 1))
       IN  IF seq[Len(seq)] \in Range(r) THEN r ELSE Append(r, seq[Len(seq)])

Injective(dic) == \A a, b \in DOMAIN dic : dic[a] = dic[b] => a = b

Contiguous(dic) == {dic[k] : k \in DOMAIN dic} = 0..(Size(dic) - 1)

WellFormed(dic) == Injective(dic) /\ Contiguous(dic) /\ dic[PAD] = 0

\* C1: once fit has been called, each of the word, character, POS and label
\* dictionaries is injective, its IDs are exactly 0..N-1 and '<PAD>' has ID 0.
C1_DictionariesWellFormed ==
  nfits > 0 =>
    /\ WellFormed(word_dic)
    /\ WellFormed(char_dic)
    /\ WellFormed(pos_dic)
    /\ WellFormed(label_dic)

\* C2: for every document given to transform the five arrays have one length, the
\* number of characters of the words the tokenizer returns for the normalized
\* text, and the word ID and the POS ID are repeated for every character of a word.
C2_FeatureLengths ==
  ret.op = "transform" =>
    /\ ret.status # "AssertionError"
    /\ ret.status = "ok" =>
         /\ \A k \in 1..5 : Len(ret.x[k]) = Len(X)
         /\ \A i \in DOMAIN X :
              LET tk == tokenize(Normalized(X[i]))
                  n == Len(Flatten(tk.words))
              IN  /\ \A k \in 1..5 : Len(ret.x[k][i]) = n
                  /\ \A p \in 1..n :
                       /\ ret.x[1][i][p] =
                            Get(word_dic, tk.words[WordAt(tk.words, p)], word_dic[UNK])
                       /\ ret.x[4][i][p] =
                            Get(pos_dic, tk.poses[WordAt(tk.words, p)], pos_dic[UNK])

C2_Witness ==
  /\ ret.op = "transform"
  /\ ret.status = "ok"
  /\ nfits > 0
  /\ \E i \in DOMAIN X :
       /\ Len(tokenize(Normalized(X[i])).words) = 2
       /\ Len(ret.x[1][i]) = 3
       /\ ret.x[1][i][1] = ret.x[1][i][2]
       /\ ret.x[1][i][1] > 1

UnknownLabel == y.some /\ \E i \in DOMAIN y.v : \E j \in DOMAIN y.v[i] : y.v[i][j] \notin DOMAIN label_dic

\* C3: in transform a word, character or POS tag that is in no dictionary never
\* makes the call fail and is encoded as 1, the ID of '<UNK>'; a label that is not
\* in the label dictionary makes the call raise KeyError and return nothing.
C3_UnknownHandling ==
  ret.op = "transform" =>
    /\ UnknownLabel => ret.status = "KeyError" /\ ret.x = <<>> /\ ~ret.yv.some
    /\ ~UnknownLabel =>
         /\ ret.status = "ok"
         /\ \A i \in DOMAIN X :
              LET tk == tokenize(Normalized(X[i]))
                  cs == Flatten(tk.words)
              IN  \A p \in DOMAIN cs :
                    /\ tk.words[WordAt(tk.words, p)] \notin DOMAIN word_dic => ret.x[1][i][p] = 1
                    /\ <<cs[p]>> \notin DOMAIN char_dic => ret.x[2][i][p] = 1
                    /\ tk.poses[WordAt(tk.words, p)] \notin DOMAIN pos_dic => ret.x[4][i][p] = 1

C3_Witness ==
  /\ ret.op = "transform"
  /\ ret.status = "ok"
  /\ nfits > 0
  /\ \E i \in DOMAIN X :
       LET tk == tokenize(Normalized(X[i]))
       IN  \E j \in DOMAIN tk.words :
             /\ tk.words[j] \notin DOMAIN word_dic
             /\ <<tk.words[j][1]>> \notin DOMAIN char_dic
             /\ tk.poses[j] \notin DOMAIN pos_dic
             /\ ret.x[1][i][1] # 1

\* C4 as stated: inverse_transform of the char IDs transform produced returns
\* exactly the characters of each document's normalized tokenized text.
C4_RoundTripExact ==
  (ret.op = "inverse_transform_X" /\ nfits > 0) =>
    /\ Len(ret.dec) = Len(X)
    /\ \A i \in DOMAIN X : ret.dec[i] = DocChars(X[i])

\* C4 as amended: inverse_transform of the char IDs transform produced returns,
\* position by position, the character of the normalized tokenized text where the
\* character is in the character dictionary, and '<UNK>' where it is not.
C4_RoundTripKnown ==
  ret.op = "inverse_transform_X" =>
    /\ Len(ret.dec) = Len(X)
    /\ \A i \in DOMAIN X :
         /\ Len(ret.dec[i]) = Len(DocChars(X[i]))
         /\ \A p \in DOMAIN ret.dec[i] :
              ret.dec[i][p] = IF DocChars(X[i])[p] \in DOMAIN char_dic
                              THEN DocChars(X[i])[p] ELSE UNK

C4_Witness ==
  /\ ret.op = "inverse_transform_X"
  /\ nfits > 0
  /\ \E i \in DOMAIN X :
       /\ Len(ret.dec[i]) = 3
       /\ ret.dec[i] = DocChars(X[i])
       /\ ret.dec[i][1] # ret.dec[i][2]

\* the five streams transform returned for the documents X, before padding
Streams ==
  LET fs == DocsFeatures(X)
  IN  <<[i \in DOMAIN fs |-> fs[i].word_ids],
        [i \in DOMAIN fs |-> fs[i].char_ids],
        [i \in DOMAIN fs |-> fs[i].bies_ids],
        [i \in DOMAIN fs |-> fs[i].pos_ids],
        [i \in DOMAIN fs |-> fs[i].char_types]>>

\* the length of the longest row
Longest(rows) == MaxOf({Len(rows[i]) : i \in DOMAIN rows})

\* rows, each followed by zeros up to the length L
RightPadded(padded, rows, L) ==
  /\ Len(padded) = Len(rows)
  /\ \A i \in DOMAIN rows :
       /\ Len(padded[i]) = L
       /\ \A p \in 1..L : padded[i][p] = IF p <= Len(rows[i]) THEN rows[i][p] ELSE 0

\* C5: DynamicPreprocessor.transform pads each of the five streams of a batch of n
\* documents to shape (n, L), L the longest document of the batch: row i keeps
\* document i's values in its first positions and holds 0 after them.
C5_RightPadding ==
  (ret.op = "dyn_transform" /\ ret.status = "ok") =>
    \A k \in 1..5 : RightPadded(ret.x[k], Streams[k], Longest(Streams[1]))

C5_Witness ==
  /\ ret.op = "dyn_transform"
  /\ ret.status = "ok"
  /\ nfits > 0
  /\ Len(X) = 3
  /\ Len(ret.x[2][1]) = 3
  /\ ret.x[2][1][2] > 1
  /\ ret.x[2][1][3] = 0
  /\ ret.x[2][2][2] = 0
  /\ ret.x[2][3][3] > 1

\* every row of the tensor has L entries, and there are n rows
Shape2(t, n, L) == Len(t) = n /\ \A i \in DOMAIN t : Len(t[i]) = L

\* C6 as stated: every tensor DynamicPreprocessor.transform returns, the one-hot
\* label tensor included, has the leading dimensions (batch size, longest sequence).
C6_SameLeadingDims ==
  (ret.op = "dyn_transform" /\ ret.status = "ok") =>
    /\ \A k \in 1..5 : Shape2(ret.x[k], Len(X), Longest(Streams[1]))
    /\ ret.yv.some => Shape2(ret.yv.v, Len(X), Longest(Streams[1]))

\* one label sequence per document, with one label per character
LabelsAligned ==
  /\ Len(y.v) = Len(X)
  /\ \A i \in DOMAIN X : Len(y.v[i]) = Len(Streams[1][i])

\* C6 as amended: the five feature tensors have the leading dimensions (number of
\* documents, longest document); the one-hot label tensor has the leading
\* dimensions (number of label sequences, longest label sequence) and width
\* n_labels, which are the feature tensors' leading dimensions when there is one
\* label sequence per document with one label per character.
C6_LeadingDims ==
  (ret.op = "dyn_transform" /\ ret.status = "ok") =>
    /\ \A k \in 1..5 : Shape2(ret.x[k], Len(X), Longest(Streams[1]))
    /\ ret.yv.some =>
         /\ y.some
         /\ Shape2(ret.yv.v, Len(y.v), Longest(y.v))
         /\ \A i \in DOMAIN ret.yv.v : \A p \in DOMAIN ret.yv.v[i] :
              Len(ret.yv.v[i][p]) = Size(label_dic)
         /\ LabelsAligned => Shape2(ret.yv.v, Len(X), Longest(Streams[1]))

C6_Witness ==
  /\ ret.op = "dyn_transform"
  /\ ret.status = "ok"
  /\ ret.yv.some
  /\ LabelsAligned
  /\ Len(X) = 3
  /\ Longest(Streams[1]) = 3
  /\ \E i \in DOMAIN X : Len(Streams[1][i]) = 1


\* C7: for a word of L >= 1 characters get_bies returns exactly L tags: [S] when
\* L = 1, [B, E] when L = 2, and B, then L-2 times I, then E when L > 2, with
\* B = 1, I = 2, E = 3, S = 4.
C7_Bies ==
  (bies.status # "none" /\ Len(word) >= 1) =>
    /\ bies.status = "ok"
    /\ Len(bies.v) = Len(word)
    /\ Len(word) = 1 => bies.v = <<4>>
    /\ Len(word) = 2 => bies.v = <<1, 3>>
    /\ Len(word) > 2 =>
         /\ bies.v[1] = 1
         /\ bies.v[Len(word)] = 3
         /\ \A p \in 2..(Len(word) - 1) : bies.v[p] = 2

C7_Witness == bies.status = "ok" /\ Len(word) = 3 /\ bies.v = <<1, 2, 3>>

\* the collaborator calls of train, in the order of the code
StepsOrder ==
  <<"batch_iter_train", "batch_iter_valid", "CharacterNER", "compile", "get_callbacks",
    "fit_generator", "save">>

GrowthOnly(dic, dic2) == \A k \in DOMAIN dic : k \in DOMAIN dic2 /\ dic2[k] = dic[k]

\* C9: every call of fit, a second or later one included, keeps every (string, ID)
\* entry of the word, character, POS and label dictionaries and only adds entries.
C9_FitGrowthOnly ==
  [][/\ GrowthOnly(word_dic, word_dic')
     /\ GrowthOnly(char_dic, char_dic')
     /\ GrowthOnly(pos_dic, pos_dic')
     /\ GrowthOnly(label_dic, label_dic')]_vars

\* dic gives the k-th element of seq the ID base + k, and holds nothing else but reserved
InOrder(dic, seq, reserved, base) ==
  /\ DOMAIN dic = reserved \cup Range(seq)
  /\ \A k \in DOMAIN seq : dic[seq[k]] = base + k

\* C10: after fit on a fresh preprocessor the k-th distinct word, character and POS
\* tag met across the documents has the ID 1 + k and the k-th distinct label met
\* across the label sequences has the ID k, so the dictionaries are a function of
\* the input.
C10_FirstOccurrenceOrder ==
  (nfits = 1 /\ ret.op = "fit" /\ ret.status = "ok") =>
    /\ InOrder(word_dic, FirstOccurrences(AllWords(X)), {PAD, UNK}, 1)
    /\ InOrder(char_dic,
               FirstOccurrences([p \in DOMAIN Flatten(AllWords(X)) |-> <<Flatten(AllWords(X))[p]>>]),
               {PAD, UNK}, 1)
    /\ InOrder(pos_dic, FirstOccurrences(AllPoses(X)), {PAD, UNK}, 1)
    /\ InOrder(label_dic, FirstOccurrences(Flatten(y.v)), {PAD}, 0)

====
